---- MODULE Spec2Model ----
(***************************************************************************)
(* Model of the useFilter React hook and of its text normaliser            *)
(* normalizarTexto (src/src/index.tsx).                                    *)
(*                                                                         *)
(* A JavaScript string is a sequence of characters; a character is a TLA+  *)
(* string naming it ("e", "E", "!", " " stand for themselves, "e_acute"    *)
(* for U+00E9, "E_acute" for U+00C9, "acute" for the combining mark        *)
(* U+0301).  An array is a record [ref, items]: ref is its identity (what  *)
(* Object.is compares), items its contents.                                *)
(***************************************************************************)
EXTENDS Integers, Sequences, FiniteSets

VARIABLES
    data,            \* prop: the array the host passes
    key,             \* prop: the field used for matching
    errorComponent,  \* prop: the host's fallback element
    filterText,      \* useState<string>("")
    memo,            \* the useMemo cell: [deps, value]
    result,          \* what the last render returned
    e,               \* the change events delivered so far: <<>> or <<last event>>
    texto,           \* input of the normaliser run
    once,            \* <<>> or <<normalizarTexto(texto)>>
    twice            \* <<>> or <<normalizarTexto(once[1])>>

vars == <<data, key, errorComponent, filterText, memo, result, e, texto, once, twice>>

hookVars == <<data, key, errorComponent, filterText, memo, result, e>>

normVars == <<texto, once, twice>>

----------------------------------------------------------------------------
(* Bounds *)

MaxQueryLen == 2

MaxData == 2

MaxTextLen == 3

----------------------------------------------------------------------------
(* Characters *)

\* The characters a search text is drawn from: a lowercase and an uppercase
\* letter, a precomposed accented letter, a stripped sign and a space.
QueryChars == {"e", "E", "e_acute", "!", " "}

\* The characters the normaliser is run on: the above, plus the uppercase
\* accented letter, a lone combining mark, a sign the pattern does not list
\* and a digit.
NormChars == QueryChars \cup {"E_acute", "acute", "@", "1"}

\* the class U+0300..U+036F (the marks of it the model names)
CombiningMarks == {"grave", "acute", "circumflex", "tilde", "diaeresis"}

\* the class of signs of the second replace
Signs == {".", ",", "/", "#", "!", "$", "%", "^", "&", "asterisk", ";", ":",
          "lbrace", "rbrace", "=", "-", "_", "backtick", "~", "lparen",
          "rparen", "inverted_question", "?", "inverted_exclamation"}

\* What String.prototype.trim removes.
WhiteSpace == {" ", "tab", "lf", "cr", "nbsp"}

----------------------------------------------------------------------------
(* normalizarTexto *)

\* Canonical decomposition of one character.
decompose(c) ==
    CASE c = "e_acute" -> <<"e", "acute">>
      [] c = "E_acute" -> <<"E", "acute">>
      [] c = "n_tilde" -> <<"n", "tilde">>
      [] c = "N_tilde" -> <<"N", "tilde">>
      [] OTHER -> <<c>>

RECURSIVE normalizeNFD(_)
\* .normalize("NFD")
normalizeNFD(s) ==
    IF s = <<>> THEN <<>> ELSE decompose(Head(s)) \o normalizeNFD(Tail(s))

\* .replace(<U+0300..U+036F>, "")
stripDiacritics(s) == SelectSeq(s, LAMBDA c : c \notin CombiningMarks)

\* .replace(<signs>, "")
stripSigns(s) == SelectSeq(s, LAMBDA c : c \notin Signs)

lowerChar(c) ==
    CASE c = "E" -> "e"
      [] c = "N" -> "n"
      [] c = "E_acute" -> "e_acute"
      [] c = "N_tilde" -> "n_tilde"
      [] OTHER -> c

\* .toLowerCase()
toLowerCase(s) == [i \in 1..Len(s) |-> lowerChar(s[i])]

RECURSIVE trimStart(_)
trimStart(s) ==
    IF s # <<>> /\ Head(s) \in WhiteSpace THEN trimStart(Tail(s)) ELSE s

RECURSIVE trimEnd(_)
trimEnd(s) ==
    IF s # <<>> /\ s[Len(s)] \in WhiteSpace
    THEN trimEnd(SubSeq(s, 1, Len(s) - 1))
    ELSE s

\* .trim()
trim(s) == trimEnd(trimStart(s))

\* A normaliser that trims before it strips the signs.
normalizarTextoTrimFirst(txt) ==
    toLowerCase(stripSigns(trim(stripDiacritics(normalizeNFD(txt)))))

\* A normaliser that forgets .toLowerCase().
normalizarTextoNoLower(txt) ==
    trim(stripSigns(stripDiacritics(normalizeNFD(txt))))

normalizarTexto(txt) ==
    trim(toLowerCase(stripSigns(stripDiacritics(normalizeNFD(txt)))))

----------------------------------------------------------------------------
(* Values, items and arrays *)

Str(s) == [t |-> "string", s |-> s, n |-> 0]

Num(n) == [t |-> "number", s |-> <<>>, n |-> n]

Undefined == [t |-> "undefined", s |-> <<>>, n |-> 0]

DigitChars == <<"0", "1", "2", "3", "4", "5", "6", "7", "8", "9">>

RECURSIVE decimal(_)
decimal(n) ==
    IF n < 10 THEN <<DigitChars[n + 1]>>
    ELSE decimal(n \div 10) \o <<DigitChars[(n % 10) + 1]>>

\* String(item[key]): a string is itself, a number its decimal digits, a
\* missing field the text "undefined".
String(v) ==
    CASE v.t = "string" -> v.s
      [] v.t = "number" -> decimal(v.n)
      [] OTHER -> <<"u", "n", "d", "e", "f", "i", "n", "e", "d">>

\* The objects the host's lists are made of, each named by its identity (an
\* array holds references), and their fields: object 1 has a name with an
\* uppercase accented letter and a numeric id, object 2 a name with a sign
\* and no id.
Items == {1, 2}

Fields ==
    << [name |-> Str(<<"E_acute", "e">>), id |-> Num(1)],
       [name |-> Str(<<"e", "!">>),       id |-> Undefined] >>

Keys == {"name", "id"}

\* The host's fallback elements; null is the absent indicator.
Fallbacks == {"<p>No results</p>", "<ErrorComponent />"}

null == "null"

\* Identities of the arrays the host passes; FilterRef is the identity of an
\* array that Array.prototype.filter allocated.
DataRefs == {1, 2}

FilterRef == 0

Texts == UNION { [1..n -> QueryChars] : n \in 0..MaxQueryLen }

ItemLists == UNION { [1..n -> Items] : n \in 0..MaxData }

\* normalizarTexto(String(item[key])) of every object and key.  The field
\* texts are fixed and normalizarTexto is pure, so the value the callback of
\* data.filter computes for an item is computed here once.
campoNormalizado ==
    [item \in Items |->
        [k \in Keys |-> LET valorCampo == String(Fields[item][k])
                        IN  normalizarTexto(valorCampo)]]

----------------------------------------------------------------------------
(* useFilter *)

\* A String.prototype.includes that only looks at the start of the text.
includesAtStart(haystack, needle) ==
    /\ Len(needle) <= Len(haystack)
    /\ SubSeq(haystack, 1, Len(needle)) = needle

\* String.prototype.includes
includes(haystack, needle) ==
    \E k \in 0..(Len(haystack) - Len(needle)) :
        \A j \in 1..Len(needle) : haystack[k + j] = needle[j]

\* The callback of data.filter.
keeps(item, k, searchText) ==
    includes(campoNormalizado[item][k], searchText)

RECURSIVE filterReversed(_, _, _)
\* A filter that collects the kept items in front of the earlier ones.
filterReversed(items, k, searchText) ==
    IF items = <<>> THEN <<>>
    ELSE filterReversed(Tail(items), k, searchText)
         \o (IF keeps(Head(items), k, searchText) THEN <<Head(items)>> ELSE <<>>)

RECURSIVE filter(_, _, _)
\* data.filter(...): the kept items, in the order of data.
filter(items, k, searchText) ==
    IF items = <<>> THEN <<>>
    ELSE (IF keeps(Head(items), k, searchText) THEN <<Head(items)>> ELSE <<>>)
         \o filter(Tail(items), k, searchText)

\* An error that is raised when there ARE results.
errorOfInverted(filtered, ec) == IF Len(filtered) = 0 THEN null ELSE ec

\* filtered.length === 0 ? errorComponent : null
errorOf(filtered, ec) == IF Len(filtered) = 0 THEN ec ELSE null

\* A derivation with no early return for the empty text.
computeNoEarlyReturn(d, ft, k, ec) ==
    LET searchText == normalizarTexto(ft)
        filtered == filter(d.items, k, searchText)
    IN  [filteredData |-> [ref |-> FilterRef, items |-> filtered],
         error |-> errorOf(filtered, ec)]

\* A derivation that tests the normalised text, not the raw one.
computeNormalizedGuard(d, ft, k, ec) ==
    LET searchText == normalizarTexto(ft)
        filtered == filter(d.items, k, searchText)
    IN  IF searchText = <<>>
        THEN [filteredData |-> d, error |-> null]
        ELSE [filteredData |-> [ref |-> FilterRef, items |-> filtered],
              error |-> errorOf(filtered, ec)]

\* The callback of useMemo.
compute(d, ft, k, ec) ==
    IF ft = <<>>
    THEN [filteredData |-> d, error |-> null]
    ELSE LET searchText == normalizarTexto(ft)
             filtered == filter(d.items, k, searchText)
         IN  [filteredData |-> [ref |-> FilterRef, items |-> filtered],
              error |-> errorOf(filtered, ec)]

\* The dependency list of the earlier, effect-based hook: no errorComponent.
depsWithoutErrorComponent(d, ft, k, ec) == <<d.ref, ft, k, null>>

\* [data, filterText, key, errorComponent], each compared with Object.is:
\* the array by identity, the strings by value, the element by identity.
deps(d, ft, k, ec) == <<d.ref, ft, k, ec>>

\* useMemo: the cached value while the dependencies are the same, the
\* callback's value otherwise.
useMemo(m, d, ft, k, ec) ==
    IF m # <<>> /\ m[1].deps = deps(d, ft, k, ec)
    THEN m
    ELSE << [deps |-> deps(d, ft, k, ec), value |-> compute(d, ft, k, ec)] >>

\* A hook that returns the normalised text.
returnedNormalized(ft, value) ==
    [filterText |-> normalizarTexto(ft),
     filteredData |-> value.filteredData,
     error |-> value.error]

\* return { filterText, filteredData, error, handleFilterChange }
returned(ft, value) ==
    [filterText |-> ft,
     filteredData |-> value.filteredData,
     error |-> value.error]

\* One call of useFilter(data, key, errorComponent) with the state filterText.
Render(d, ft, k, ec) ==
    /\ memo' = useMemo(memo, d, ft, k, ec)
    /\ result' = returned(ft, memo'[1].value)

\* A handler that stores the normalised text, as the effect-based hook did.
setFilterTextNormalized(ev) == normalizarTexto(ev.target.value)

\* setFilterText(e.target.value)
setFilterText(ev) == ev.target.value

\* The input's change event with the text t: the handler sets the state and
\* React renders again.
handleFilterChange(t) ==
    /\ e' = << [target |-> [value |-> t]] >>
    /\ filterText' = setFilterText(e'[1])
    /\ Render(data, filterText', key, errorComponent)
    /\ UNCHANGED <<data, key, errorComponent, normVars>>

\* The host renders with another array.  A prop is not mutated in place: a
\* changed list is a new array, and so is a list rebuilt with equal contents.
HostData(r, items) ==
    /\ r # data.ref
    /\ data' = [ref |-> r, items |-> items]
    /\ Render(data', filterText, key, errorComponent)
    /\ UNCHANGED <<key, errorComponent, filterText, e, normVars>>

\* The host renders with another key.
HostKey(k) ==
    /\ k # key
    /\ key' = k
    /\ Render(data, filterText, key', errorComponent)
    /\ UNCHANGED <<data, errorComponent, filterText, e, normVars>>

\* The host renders with another fallback element.
HostFallback(ec) ==
    /\ ec # errorComponent
    /\ errorComponent' = ec
    /\ Render(data, filterText, key, errorComponent')
    /\ UNCHANGED <<data, key, filterText, e, normVars>>

\* The host renders again with the same props.
Rerender ==
    /\ Render(data, filterText, key, errorComponent)
    /\ UNCHANGED <<data, key, errorComponent, filterText, e, normVars>>

\* The first render: the state is "" and the memo cell is empty.
Init ==
    /\ data \in { [ref |-> 1, items |-> items] : items \in ItemLists }
    /\ key \in Keys
    /\ errorComponent \in Fallbacks
    /\ filterText = <<>>
    /\ e = <<>>
    /\ memo = useMemo(<<>>, data, filterText, key, errorComponent)
    /\ result = returned(filterText, memo[1].value)
    /\ texto = <<>>
    /\ once = <<>>
    /\ twice = <<>>

Next ==
    \/ \E t \in Texts : handleFilterChange(t)
    \/ \E r \in DataRefs, items \in ItemLists : HostData(r, items)
    \/ \E k \in Keys : HostKey(k)
    \/ \E ec \in Fallbacks : HostFallback(ec)
    \/ Rerender

Spec == Init /\ [][Next]_vars

----------------------------------------------------------------------------
(* normalizarTexto applied to a text, and then to its own result *)

NormTexts == UNION { [1..n -> NormChars] : n \in 0..MaxTextLen }

NormalizeOnce ==
    /\ once = <<>>
    /\ once' = << normalizarTexto(texto) >>
    /\ UNCHANGED <<texto, twice, hookVars>>

NormalizeTwice ==
    /\ once # <<>>
    /\ twice = <<>>
    /\ twice' = << normalizarTexto(once[1]) >>
    /\ UNCHANGED <<texto, once, hookVars>>

NormInit ==
    /\ texto \in NormTexts
    /\ once = <<>>
    /\ twice = <<>>
    /\ data = [ref |-> 1, items |-> <<>>]
    /\ key = "name"
    /\ errorComponent = "<ErrorComponent />"
    /\ filterText = <<>>
    /\ e = <<>>
    /\ memo = useMemo(<<>>, data, filterText, key, errorComponent)
    /\ result = returned(filterText, memo[1].value)

NormNext == NormalizeOnce \/ NormalizeTwice

NormSpec == NormInit /\ [][NormNext]_vars

----------------------------------------------------------------------------
(* What the properties are stated with *)

Range(s) == { s[i] : i \in 1..Len(s) }

\* needle occurs in haystack as a contiguous run of characters.
IsSubstring(needle, haystack) ==
    \E i \in 1..(Len(haystack) + 1) :
        \E j \in (i - 1)..Len(haystack) : SubSeq(haystack, i, j) = needle

\* normalizarTexto(String(item[k]))
NormalizedField(item, k) == normalizarTexto(String(Fields[item][k]))

Matches(item, k, q) == IsSubstring(normalizarTexto(q), NormalizedField(item, k))

RECURSIVE IsSubsequence(_, _)
\* s is t with some elements left out.
IsSubsequence(s, t) ==
    IF s = <<>> THEN TRUE
    ELSE IF t = <<>> THEN FALSE
    ELSE IF Head(s) = Head(t) THEN IsSubsequence(Tail(s), Tail(t))
    ELSE IsSubsequence(s, Tail(t))

\* The text of the last change event, "" before any.
Typed == IF e = <<>> THEN <<>> ELSE e[1].target.value

\* The letter a character is, its case and accent put aside; a combining
\* mark is no letter.
BaseLetter(c) ==
    CASE c \in {"e", "E", "e_acute", "E_acute"} -> <<"e">>
      [] c \in {"n", "N", "n_tilde", "N_tilde"} -> <<"n">>
      [] c \in CombiningMarks -> <<>>
      [] OTHER -> <<c>>

RECURSIVE Fold(_)
\* Two texts differ only in letter case or accents when their folds are equal.
Fold(s) == IF s = <<>> THEN <<>> ELSE BaseLetter(Head(s)) \o Fold(Tail(s))

\* The derivation done afresh from the latest data, query and key.
EagerItems ==
    IF filterText = <<>> THEN data.items
    ELSE SelectSeq(data.items, LAMBDA item : Matches(item, key, filterText))

EagerError ==
    IF filterText # <<>> /\ EagerItems = <<>> THEN errorComponent ELSE null

----------------------------------------------------------------------------
(* Properties *)

\* C1: with a non-empty query the hook keeps exactly the matching items:
\* an item of data is in filteredData if and only if normalizarTexto(query)
\* is a substring of normalizarTexto(String(item[key])), and filteredData
\* holds nothing else.
C1_KeepsExactlyTheMatches ==
    result.filterText # <<>> =>
        /\ Range(result.filteredData.items) \subseteq Range(data.items)
        /\ \A i \in 1..Len(data.items) :
              data.items[i] \in Range(result.filteredData.items)
                  <=> Matches(data.items[i], key, result.filterText)

\* A query that keeps one item of a two-item list and drops the other.
C1_Witness ==
    /\ result.filterText # <<>>
    /\ Len(data.items) = 2
    /\ Len(result.filteredData.items) = 1

\* C2: the indicator is present exactly when the query is not empty and
\* filteredData is empty; when present it is the host's fallback element,
\* otherwise it is null.
C2_IndicatorLaw ==
    /\ result.error # null
           <=> (result.filterText # <<>> /\ result.filteredData.items = <<>>)
    /\ result.error # null => result.error = errorComponent

\* The indicator shown for an empty data list and a non-empty query.
C2_Witness ==
    /\ data.items = <<>>
    /\ result.filterText # <<>>
    /\ result.error = errorComponent

\* C3: while the query is the empty string, filteredData is the data array
\* itself and the indicator is absent.
C3_EmptyQueryReturnsData ==
    result.filterText = <<>> => (result.filteredData = data /\ result.error = null)

\* The query emptied by a change event, over a list of two items.
C3_Witness ==
    /\ e # <<>>
    /\ result.filterText = <<>>
    /\ Len(data.items) = 2
    /\ result.filteredData = data

\* C4: what the hook exposes is what a derivation done afresh from the
\* latest data, query, key and fallback gives.
C4_MemoEqualsEager ==
    /\ result.filteredData.items = EagerItems
    /\ result.error = EagerError

\* After a change of the data array and a query: a filtered view that is
\* part of the new list.
C4_Witness ==
    /\ data.ref = 2
    /\ filterText # <<>>
    /\ Len(data.items) = 2
    /\ Len(result.filteredData.items) = 1

\* C5: filteredData is data with some items left out: nothing added,
\* duplicated or moved.
C5_OrderPreserved == IsSubsequence(result.filteredData.items, data.items)

\* Two different items, both kept by a non-empty query.
C5_Witness ==
    /\ result.filterText # <<>>
    /\ Len(result.filteredData.items) = 2
    /\ result.filteredData.items[1] # result.filteredData.items[2]

C8_SameLettersKept ==
    result.filterText # <<>> =>
        \A i \in 1..Len(data.items) :
            Fold(String(Fields[data.items[i]][key])) = Fold(result.filterText)
                => data.items[i] \in Range(result.filteredData.items)

\* Replacing a non-empty query by one that differs only in case or accents,
\* over the same data, key and fallback, changes neither the kept items nor
\* the indicator.
C8_SameLettersSameResult ==
    ( /\ filterText # <<>>
      /\ filterText' # <<>>
      /\ Fold(filterText) = Fold(filterText')
      /\ data' = data
      /\ key' = key
      /\ errorComponent' = errorComponent )
    => ( /\ result'.filteredData.items = result.filteredData.items
         /\ result'.error = result.error )

\* C8: matching does not depend on letter case or on diacritics.
C8_CaseAndAccentInsensitive ==
    [][C8_SameLettersSameResult]_vars /\ []C8_SameLettersKept

\* A query in another case and accent than the field of the item it keeps.
C8_Witness ==
    /\ result.filterText # <<>>
    /\ Len(data.items) = 2
    /\ Len(result.filteredData.items) = 1
    /\ String(Fields[result.filteredData.items[1]][key]) # result.filterText
    /\ Fold(String(Fields[result.filteredData.items[1]][key])) = Fold(result.filterText)

C10_EmptyNormalForm ==
    (result.filterText # <<>> /\ normalizarTexto(result.filterText) = <<>>) =>
        /\ result.filteredData.ref = FilterRef
        /\ result.filteredData.items = data.items
        /\ result.error = IF data.items = <<>> THEN errorComponent ELSE null

\* A query of signs and spaces only, over a list of two items.
C10_Witness ==
    /\ result.filterText # <<>>
    /\ normalizarTexto(result.filterText) = <<>>
    /\ Len(data.items) = 2
    /\ result.filteredData.items = data.items
    /\ result.filteredData.ref # data.ref

====
